---- MODULE Spec2Model ----
(***************************************************************************)
(* TinyGPS++ (src/TinyGPS++.h, src/TinyGPS++.cpp): the character-at-a-time *)
(* NMEA sentence parser, its staged/committed field containers and the     *)
(* sorted registry of custom field taps.                                   *)
(*                                                                         *)
(* A character is a one-character string; the NUL byte is the empty        *)
(* string.  A C string is the sequence of its characters without the NUL.  *)
(* A pointer to a TinyGPSCustom is the identity of the object, NULL is 0.  *)
(***************************************************************************)
EXTENDS Integers, Sequences, FiniteSets, TLC

NUL == ""
\* A byte that was never written: reading it gives any value.
INDETERMINATE == "indeterminate"
Digits == <<"0", "1", "2", "3", "4", "5", "6", "7", "8", "9">>
UpperCase == <<"A", "B", "C", "D", "E", "F", "G", "H", "I", "J", "K", "L", "M",
               "N", "O", "P", "Q", "R", "S", "T", "U", "V", "W", "X", "Y", "Z">>
LowerHex == <<"a", "b", "c", "d", "e", "f">>

IndexOf(seq, c) == CHOOSE i \in 1..Len(seq) : seq[i] = c
Occurs(seq, c) == \E i \in 1..Len(seq) : seq[i] = c

\* The value of a char as the code reads it (ASCII).
Ascii(c) ==
  CASE c = NUL -> 0
    [] c = "\t" -> 9
    [] c = "\n" -> 10
    [] c = "\r" -> 13
    [] c = " " -> 32
    [] c = "$" -> 36
    [] c = "*" -> 42
    [] c = "+" -> 43
    [] c = "," -> 44
    [] c = "-" -> 45
    [] c = "." -> 46
    [] Occurs(Digits, c) -> 47 + IndexOf(Digits, c)
    [] Occurs(UpperCase, c) -> 64 + IndexOf(UpperCase, c)
    [] Occurs(LowerHex, c) -> 96 + IndexOf(LowerHex, c)

\* a ^ b and a | b on non-negative integers.
RECURSIVE BitXor(_, _)
BitXor(a, b) ==
  IF a = 0 THEN b
  ELSE IF b = 0 THEN a
  ELSE ((a + b) % 2) + 2 * BitXor(a \div 2, b \div 2)

RECURSIVE BitOr(_, _)
BitOr(a, b) ==
  IF a = 0 THEN b
  ELSE IF b = 0 THEN a
  ELSE (IF a % 2 = 1 \/ b % 2 = 1 THEN 1 ELSE 0) + 2 * BitOr(a \div 2, b \div 2)

\* Conversion to uint8_t.
U8(x) == x % 256

\* A uint32_t that may take any of its values (the millisecond clock, a
\* time of commit, an age): <<high, low>>, its two 16-bit halves.
Zero32 == <<0, 0>>
One32 == <<0, 1>>
Add32(a, b) ==
  LET lo == a[2] + b[2]
      hi == a[1] + b[1] + (lo \div 65536)
  IN <<hi % 65536, lo % 65536>>
Sub32(a, b) ==
  LET lo == a[2] - b[2]
      hi == a[1] - b[1] - (IF lo < 0 THEN 1 ELSE 0)
  IN <<hi % 65536, lo % 65536>>
Less32(a, b) == a[1] < b[1] \/ (a[1] = b[1] /\ a[2] < b[2])

\* (uint32_t)ULONG_MAX
ULONG_MAX32 == <<65535, 65535>>

\* Conversion of a long to uint32_t.  Values of 2^31 and more are outside
\* the integers of the model checker, which stops with an error on them.
U32(x) == IF x >= 0 THEN x ELSE ((x + 2147483647) + 2147483647) + 2

\* The C string held in a char array: the bytes before the first NUL.
CStr(buf) ==
  LET n == CHOOSE k \in 0..Len(buf) :
             /\ \A j \in 1..k : buf[j] # NUL
             /\ (k = Len(buf) \/ buf[k + 1] = NUL)
  IN SubSeq(buf, 1, n)

\* s[i] of a C string (0-based); the terminator is read at or past its end.
CharAt(s, i) == IF i < Len(s) THEN s[i + 1] ELSE NUL

isdigit(c) == Occurs(Digits, c)
isspace(c) == c \in {" ", "\t", "\n", "\r"}
DigitVal(c) == Ascii(c) - Ascii("0")

RECURSIVE SkipSpace(_)
SkipSpace(s) == IF s # <<>> /\ isspace(Head(s)) THEN SkipSpace(Tail(s)) ELSE s

RECURSIVE SkipDigits(_)
SkipDigits(s) == IF s # <<>> /\ isdigit(Head(s)) THEN SkipDigits(Tail(s)) ELSE s

RECURSIVE DigitsValue(_, _)
DigitsValue(s, acc) ==
  IF s # <<>> /\ isdigit(Head(s))
  THEN DigitsValue(Tail(s), 10 * acc + DigitVal(Head(s)))
  ELSE acc

\* atol: leading white space, an optional sign, then the leading digits.
atol(s) ==
  LET t == SkipSpace(s)
      signed == t # <<>> /\ Head(t) \in {"+", "-"}
      u == IF signed THEN Tail(t) ELSE t
  IN IF signed /\ Head(t) = "-" THEN 0 - DigitsValue(u, 0) ELSE DigitsValue(u, 0)

\* strcmp as its sign: -1, 0 or 1.
RECURSIVE strcmp(_, _)
strcmp(a, b) ==
  IF a = <<>> /\ b = <<>> THEN 0
  ELSE IF CharAt(a, 0) # CharAt(b, 0)
       THEN (IF Ascii(CharAt(a, 0)) < Ascii(CharAt(b, 0)) THEN -1 ELSE 1)
       ELSE strcmp(Tail(a), Tail(b))

\* TinyGPSPlus::fromHex.  A char that is no hex digit gives a - '0'.
fromHex(a) ==
  IF Ascii(a) >= Ascii("A") /\ Ascii(a) <= Ascii("F") THEN Ascii(a) - Ascii("A") + 10
  ELSE IF Ascii(a) >= Ascii("a") /\ Ascii(a) <= Ascii("f") THEN Ascii(a) - Ascii("a") + 10
  ELSE Ascii(a) - Ascii("0")

\* A parseDecimal that reads one digit after the point.
parseDecimalOfTenths(term) ==
  LET negative == CharAt(term, 0) = "-"
      t1 == IF negative THEN Tail(term) ELSE term
      t2 == SkipDigits(t1)
      ret == 100 * atol(t1)
               + (IF CharAt(t2, 0) = "." /\ isdigit(CharAt(t2, 1))
                  THEN 10 * DigitVal(CharAt(t2, 1)) ELSE 0)
  IN IF negative THEN 0 - ret ELSE ret

\* TinyGPSPlus::parseDecimal.
parseDecimal(term) ==
  LET negative == CharAt(term, 0) = "-"
      t1 == IF negative THEN Tail(term) ELSE term
      ret0 == 100 * atol(t1)
      t2 == SkipDigits(t1)
      ret1 == IF CharAt(t2, 0) = "." /\ isdigit(CharAt(t2, 1))
              THEN ret0 + 10 * DigitVal(CharAt(t2, 1))
                        + (IF isdigit(CharAt(t2, 2)) THEN DigitVal(CharAt(t2, 2)) ELSE 0)
              ELSE ret0
  IN IF negative THEN 0 - ret1 ELSE ret1

\* The loop of parseDegrees over the digits after the decimal point.
RECURSIVE FractionOfMinutes(_, _, _)
FractionOfMinutes(s, multiplier, tenMillionthsOfMinutes) ==
  IF s # <<>> /\ isdigit(Head(s))
  THEN FractionOfMinutes(Tail(s), multiplier \div 10,
                         tenMillionthsOfMinutes + DigitVal(Head(s)) * (multiplier \div 10))
  ELSE tenMillionthsOfMinutes

\* 5 * t / 3 without the rounding bias, for 0 <= t < 858993459.
FiveThirdsUnbiased(t) == 5 * (t \div 3) + (5 * (t % 3)) \div 3

\* (5 * t + 1) / 3 in 32-bit unsigned arithmetic, for 0 <= t < 2^31.  The
\* product wraps at 2^32 = 5 * 858993459 + 1; the quotient is taken by parts
\* so that no intermediate leaves the integers of the model checker.
FiveThirds(t) ==
  IF t < 858993459
  THEN 5 * (t \div 3) + (5 * (t % 3) + 1) \div 3
  ELSE LET u == t - 858993459 IN 5 * (u \div 3) + (5 * (u % 3)) \div 3

\* struct RawDegrees and its constructor.
RawDegrees == [deg |-> 0, billionths |-> 0, negative |-> FALSE]

\* TinyGPSPlus::parseDegrees.
parseDegrees(term) ==
  LET leftOfDecimal == U32(atol(term))
      minutes == (leftOfDecimal % 100) % 65536
      multiplier == 10000000
      rest == SkipDigits(term)
      tenMillionthsOfMinutes ==
        IF CharAt(rest, 0) = "."
        THEN FractionOfMinutes(Tail(rest), multiplier, minutes * multiplier)
        ELSE minutes * multiplier
  IN [deg |-> (leftOfDecimal \div 100) % 65536,
      billionths |-> FiveThirds(tenMillionthsOfMinutes),
      negative |-> FALSE]

(***************************************************************************)
(* Program constants.                                                      *)
(***************************************************************************)
GPS_MAX_FIELD_SIZE == 15
GPS_SENTENCE_GPGGA == 0
GPS_SENTENCE_GPRMC == 1
GPS_SENTENCE_OTHER == 2
NULL == 0

GPRMCterm == <<"G", "P", "R", "M", "C">>
GPGGAterm == <<"G", "P", "G", "G", "A">>
GNRMCterm == <<"G", "N", "R", "M", "C">>
GNGGAterm == <<"G", "N", "G", "G", "A">>

(***************************************************************************)
(* Bounds of the model.                                                    *)
(***************************************************************************)
MaxSentences == 2    \* sentences fed in one run
MaxTerms == 11       \* names and data fields fed in one run
MaxCustom == 3       \* TinyGPSCustom objects the caller owns
MaxCalls == 2        \* accessor calls and clock ticks in one run
MaxDigits == 3       \* digits on either side of the point of a number text
MaxFraction == 8     \* digits after the point of a degrees text
MaxLongTerms == 300  \* names and data fields fed in one run of long sentences

VARIABLES
  \* class TinyGPSPlus
  parity, isChecksumTerm, term, curSentenceType, curTermNumber, curTermOffset,
  sentenceHasFix, customElts, customCandidates,
  encodedCharCount, sentencesWithFixCount, failedChecksumCount, passedChecksumCount,
  location, date, time, speed, course, altitude, satellites, hdop,
  \* the TinyGPSCustom objects whose begin() has run, by identity
  custom,
  \* Arduino's millis()
  millis,
  \* the call just made, whether the call before it was the same, what encode()
  \* returned last,
  \* what the accessor returned last
  lastOp, again, ret, got,
  \* the caller's input: the characters fed since the last '$' (with it) and
  \* what encode() returned on each, the rest of the sentence being fed, what
  \* the parser held when the '$' was fed, the sentences that validated, and
  \* the counts the bounds limit
  sent, rets, pending, before, nSentences, nTerms, validated, nCalls,
  \* what the caller wrote down of the sentences it watched: the characters of
  \* each, what encode() returned on each character and how far the passed,
  \* failed and fix counters moved while it was fed
  noted,
  \* the caller's tally of its encode() calls and of those that returned true
  tally

parserVars == <<parity, isChecksumTerm, term, curSentenceType, curTermNumber,
                curTermOffset, sentenceHasFix, customElts, customCandidates,
                encodedCharCount, sentencesWithFixCount, failedChecksumCount,
                passedChecksumCount>>
nativeVars == <<location, date, time, speed, course, altitude, satellites, hdop>>
inputVars == <<sent, rets, pending, before, nSentences, nTerms, validated, noted, tally>>
vars == <<parserVars, nativeVars, custom, millis, lastOp, again, ret, got, inputVars, nCalls>>

Op(name, arg) == [op |-> name, arg |-> arg]

(***************************************************************************)
(* The field containers.                                                   *)
(***************************************************************************)
\* TinyGPSLocation::TinyGPSLocation
TinyGPSLocation ==
  [valid |-> FALSE, updated |-> FALSE, rawLatData |-> RawDegrees, rawLngData |-> RawDegrees,
   rawNewLatData |-> RawDegrees, rawNewLngData |-> RawDegrees, lastCommitTime |-> Zero32]
\* TinyGPSDate::TinyGPSDate
TinyGPSDate == [valid |-> FALSE, updated |-> FALSE, date |-> 0, newDate |-> 0, lastCommitTime |-> Zero32]
\* TinyGPSTime::TinyGPSTime
TinyGPSTime == [valid |-> FALSE, updated |-> FALSE, time |-> 0, newTime |-> 0, lastCommitTime |-> Zero32]
\* TinyGPSDecimal::TinyGPSDecimal
TinyGPSDecimal == [valid |-> FALSE, updated |-> FALSE, lastCommitTime |-> Zero32, val |-> 0, newval |-> 0]
\* TinyGPSInteger::TinyGPSInteger
TinyGPSInteger == [valid |-> FALSE, updated |-> FALSE, lastCommitTime |-> Zero32, val |-> 0, newval |-> 0]

LocationCommit(l, now) ==
  [l EXCEPT !.rawLatData = l.rawNewLatData, !.rawLngData = l.rawNewLngData,
            !.lastCommitTime = now, !.valid = TRUE, !.updated = TRUE]
\* A container whose setLatitude writes the committed latitude.
setLatitudeUnstaged(l, t) == [l EXCEPT !.rawLatData = parseDegrees(t)]
setLatitude(l, t) == [l EXCEPT !.rawNewLatData = parseDegrees(t)]
setLongitude(l, t) == [l EXCEPT !.rawNewLngData = parseDegrees(t)]
setLatitudeNegative(l, negative) == [l EXCEPT !.rawNewLatData.negative = negative]
setLongitudeNegative(l, negative) == [l EXCEPT !.rawNewLngData.negative = negative]

\* age() of a native container or a custom entry at clock value now.
age(c, now) == IF c.valid THEN Sub32(now, c.lastCommitTime) ELSE ULONG_MAX32

DateCommit(d, now) ==
  [d EXCEPT !.date = d.newDate, !.lastCommitTime = now, !.valid = TRUE, !.updated = TRUE]
setDate(d, t) == [d EXCEPT !.newDate = U32(atol(t))]

\* A commit that does not stamp the time.
TimeCommitUnstamped(tm, now) == [tm EXCEPT !.time = tm.newTime, !.valid = TRUE, !.updated = TRUE]

TimeCommit(tm, now) ==
  [tm EXCEPT !.time = tm.newTime, !.lastCommitTime = now, !.valid = TRUE, !.updated = TRUE]
setTime(tm, t) == [tm EXCEPT !.newTime = U32(parseDecimal(t))]

DecimalCommit(d, now) ==
  [d EXCEPT !.val = d.newval, !.lastCommitTime = now, !.valid = TRUE, !.updated = TRUE]
DecimalSet(d, t) == [d EXCEPT !.newval = parseDecimal(t)]

IntegerCommit(d, now) ==
  [d EXCEPT !.val = d.newval, !.lastCommitTime = now, !.valid = TRUE, !.updated = TRUE]
IntegerSet(d, t) == [d EXCEPT !.newval = U32(atol(t))]

\* strncpy into stagingBuffer[GPS_MAX_FIELD_SIZE + 1]: at most that many
\* chars of the term, the rest of the buffer filled with NUL.
Strncpy(t, n) == IF Len(t) <= n THEN t ELSE SubSeq(t, 1, n)
CustomSet(e, t) == [e EXCEPT !.stagingBuffer = Strncpy(t, GPS_MAX_FIELD_SIZE + 1)]
CustomCommit(e, now) ==
  [e EXCEPT !.buffer = e.stagingBuffer, !.lastCommitTime = now, !.valid = TRUE, !.updated = TRUE]

(***************************************************************************)
(* The registry: a singly linked list from customElts through next.        *)
(***************************************************************************)
\* An insertion at the head of the list, whatever it holds.
InsertAtHead(cust, prev, cur, sentenceName, termNumber) == NULL

\* The object whose next field (or, for NULL, the parser's customElts) the
\* loop of insertCustom stops at: pPelt.
RECURSIVE InsertAfter(_, _, _, _, _)
InsertAfter(cust, prev, cur, sentenceName, termNumber) ==
  IF cur = NULL THEN prev
  ELSE LET cmp == strcmp(sentenceName, cust[cur].sentenceName)
       IN IF cmp < 0 \/ (cmp = 0 /\ termNumber < cust[cur].termNumber)
          THEN prev
          ELSE InsertAfter(cust, cur, cust[cur].next, sentenceName, termNumber)

\* TinyGPSCustom::begin, with TinyGPSPlus::insertCustom.  The object gets its
\* key and its empty buffers first; an object whose begin() has run before
\* is still linked where that call put it, and the loop of insertCustom
\* meets it there under its new key.  Then "pElt->next = *pPelt" and
\* "*pPelt = pElt", in this order.
begin(pElt, sentenceName, termNumber) ==
  LET elt == [lastCommitTime |-> Zero32, updated |-> FALSE, valid |-> FALSE,
              sentenceName |-> sentenceName, termNumber |-> termNumber,
              stagingBuffer |-> <<>>, buffer |-> <<>>,
              next |-> IF pElt \in DOMAIN custom THEN custom[pElt].next ELSE NULL]
      reset == (pElt :> elt) @@ custom
      prev == InsertAfter(reset, NULL, customElts, sentenceName, termNumber)
      follower == IF prev = NULL THEN customElts ELSE reset[prev].next
      pointing == [reset EXCEPT ![pElt].next = follower]
  IN /\ custom' = IF prev = NULL THEN pointing ELSE [pointing EXCEPT ![prev].next = pElt]
     /\ customElts' = IF prev = NULL THEN pElt ELSE customElts

\* The scan of endOfTermHandler for the first entry of the sentence's name.
RECURSIVE ScanCandidates(_, _, _)
ScanCandidates(cust, p, name) ==
  IF p # NULL /\ strcmp(cust[p].sentenceName, name) < 0
  THEN ScanCandidates(cust, cust[p].next, name)
  ELSE p

FindCandidates(cust, head, name) ==
  LET p == ScanCandidates(cust, head, name)
  IN IF p # NULL /\ strcmp(cust[p].sentenceName, name) > 0 THEN NULL ELSE p

\* "Commit all custom listeners of this sentence type"
RECURSIVE CommitCandidates(_, _, _, _)
CommitCandidates(cust, p, first, now) ==
  IF p # NULL /\ strcmp(cust[p].sentenceName, cust[first].sentenceName) = 0
  THEN CommitCandidates([cust EXCEPT ![p] = CustomCommit(@, now)], cust[p].next, first, now)
  ELSE cust

\* "Set custom values as needed"
RECURSIVE StageCandidates(_, _, _, _, _)
StageCandidates(cust, p, first, termNumber, t) ==
  IF /\ p # NULL
     /\ strcmp(cust[p].sentenceName, cust[first].sentenceName) = 0
     /\ cust[p].termNumber <= termNumber
  THEN StageCandidates(IF cust[p].termNumber = termNumber
                       THEN [cust EXCEPT ![p] = CustomSet(@, t)]
                       ELSE cust,
                       cust[p].next, first, termNumber, t)
  ELSE cust

(***************************************************************************)
(* TinyGPSPlus::endOfTermHandler.                                          *)
(***************************************************************************)
COMBINE(sentence_type, term_number) == BitOr(sentence_type * 32, term_number)

\* The case label of the switch that COMBINE(curSentenceType, curTermNumber)
\* selects, named by what the case does; "none" when no label matches.
Dispatch(sentence_type, term_number) ==
  LET key == COMBINE(sentence_type, term_number)
      RMC(n) == COMBINE(GPS_SENTENCE_GPRMC, n)
      GGA(n) == COMBINE(GPS_SENTENCE_GPGGA, n)
  IN CASE key \in {RMC(1), GGA(1)} -> "setTime"
       [] key = RMC(2) -> "validity"
       [] key \in {RMC(3), GGA(2)} -> "setLatitude"
       [] key \in {RMC(4), GGA(3)} -> "setLatitudeNegative"
       [] key \in {RMC(5), GGA(4)} -> "setLongitude"
       [] key \in {RMC(6), GGA(5)} -> "setLongitudeNegative"
       [] key = RMC(7) -> "speed"
       [] key = RMC(8) -> "course"
       [] key = RMC(9) -> "setDate"
       [] key = GGA(6) -> "fix"
       [] key = GGA(7) -> "satellites"
       [] key = GGA(8) -> "hdop"
       [] key = GGA(9) -> "altitude"
       [] OTHER -> "none"

\* A parser that commits nothing of a sentence without a fix.
CommitsOnlyWithFix(sentence_type, hasFix) ==
  CASE hasFix /\ sentence_type = GPS_SENTENCE_GPRMC ->
         {"date", "time", "location", "speed", "course"}
    [] hasFix /\ sentence_type = GPS_SENTENCE_GPGGA ->
         {"time", "satellites", "hdop", "location", "altitude"}
    [] OTHER -> {}

\* A parser that commits every container at every valid sentence.
CommitsEveryContainer(sentence_type, hasFix) ==
  {"date", "time", "location", "speed", "course", "altitude", "satellites", "hdop"}

\* The containers the switch on curSentenceType commits.
Commits(sentence_type, hasFix) ==
  CASE sentence_type = GPS_SENTENCE_GPRMC ->
         {"date", "time"} \cup (IF hasFix THEN {"location", "speed", "course"} ELSE {})
    [] sentence_type = GPS_SENTENCE_GPGGA ->
         {"time", "satellites", "hdop"} \cup (IF hasFix THEN {"location", "altitude"} ELSE {})
    [] OTHER -> {}

\* byte checksum = 16 * fromHex(term[0]) + fromHex(term[1])
Checksum(a, b) == U8(16 * fromHex(a) + fromHex(b))

\* What a read of a byte of term[] may give.
ReadByte(b) == IF b = INDETERMINATE THEN {NUL, "0", "A"} ELSE {b}

\* "the first term determines the sentence type"
SentenceType(name) ==
  IF strcmp(name, GPRMCterm) = 0 \/ strcmp(name, GNRMCterm) = 0 THEN GPS_SENTENCE_GPRMC
  ELSE IF strcmp(name, GPGGAterm) = 0 \/ strcmp(name, GNGGAterm) = 0 THEN GPS_SENTENCE_GPGGA
  ELSE GPS_SENTENCE_OTHER

handlerVars == <<curSentenceType, sentenceHasFix, customCandidates, sentencesWithFixCount,
                 failedChecksumCount, passedChecksumCount, nativeVars, custom>>

\* The checksum term of a sentence whose checksum checks out.
ChecksumPassed ==
  LET commits == Commits(curSentenceType, sentenceHasFix)
  IN /\ passedChecksumCount' = passedChecksumCount + 1
     /\ sentencesWithFixCount' = sentencesWithFixCount + (IF sentenceHasFix THEN 1 ELSE 0)
     /\ date' = IF "date" \in commits THEN DateCommit(date, millis) ELSE date
     /\ time' = IF "time" \in commits THEN TimeCommit(time, millis) ELSE time
     /\ location' = IF "location" \in commits THEN LocationCommit(location, millis) ELSE location
     /\ speed' = IF "speed" \in commits THEN DecimalCommit(speed, millis) ELSE speed
     /\ course' = IF "course" \in commits THEN DecimalCommit(course, millis) ELSE course
     /\ altitude' = IF "altitude" \in commits THEN DecimalCommit(altitude, millis) ELSE altitude
     /\ satellites' = IF "satellites" \in commits THEN IntegerCommit(satellites, millis)
                      ELSE satellites
     /\ hdop' = IF "hdop" \in commits THEN DecimalCommit(hdop, millis) ELSE hdop
     /\ custom' = CommitCandidates(custom, customCandidates, customCandidates, millis)
     /\ ret' = TRUE
     /\ UNCHANGED <<curSentenceType, sentenceHasFix, customCandidates, failedChecksumCount>>

\* A parser that does not count the sentence whose checksum does not check out.
ChecksumFailedUncounted ==
  /\ ret' = FALSE
  /\ UNCHANGED <<curSentenceType, sentenceHasFix, customCandidates, sentencesWithFixCount,
                 failedChecksumCount, passedChecksumCount, nativeVars, custom>>

\* A failed checksum counted with the passed ones.
ChecksumFailedAsPassed ==
  /\ passedChecksumCount' = passedChecksumCount + 1
  /\ ret' = FALSE
  /\ UNCHANGED <<curSentenceType, sentenceHasFix, customCandidates, sentencesWithFixCount,
                 failedChecksumCount, nativeVars, custom>>

\* The checksum term of a sentence whose checksum does not check out.
ChecksumFailed ==
  /\ failedChecksumCount' = failedChecksumCount + 1
  /\ ret' = FALSE
  /\ UNCHANGED <<curSentenceType, sentenceHasFix, customCandidates, sentencesWithFixCount,
                 passedChecksumCount, nativeVars, custom>>

\* Term 0: the sentence type and the custom candidates of its name.
SentenceNameTerm(t) ==
  /\ curSentenceType' = SentenceType(CStr(t))
  /\ customCandidates' = FindCandidates(custom, customElts, CStr(t))
  /\ ret' = FALSE
  /\ UNCHANGED <<sentenceHasFix, sentencesWithFixCount, failedChecksumCount,
                 passedChecksumCount, nativeVars, custom>>

\* Any other term: the native container of the case label, then the custom
\* candidates of this term number.
DataTerm(t) ==
  LET label == IF curSentenceType # GPS_SENTENCE_OTHER /\ t[1] # NUL
               THEN Dispatch(curSentenceType, curTermNumber)
               ELSE "none"
      text == CStr(t)
  IN /\ time' = IF label = "setTime" THEN setTime(time, text) ELSE time
     /\ sentenceHasFix' = CASE label = "validity" -> (t[1] = "A")
                            [] label = "fix" -> (Ascii(t[1]) > Ascii("0"))
                            [] OTHER -> sentenceHasFix
     /\ location' = CASE label = "setLatitude" -> setLatitude(location, text)
                      [] label = "setLatitudeNegative" -> setLatitudeNegative(location, t[1] = "S")
                      [] label = "setLongitude" -> setLongitude(location, text)
                      [] label = "setLongitudeNegative" -> setLongitudeNegative(location, t[1] = "W")
                      [] OTHER -> location
     /\ speed' = IF label = "speed" THEN DecimalSet(speed, text) ELSE speed
     /\ course' = IF label = "course" THEN DecimalSet(course, text) ELSE course
     /\ date' = IF label = "setDate" THEN setDate(date, text) ELSE date
     /\ satellites' = IF label = "satellites" THEN IntegerSet(satellites, text) ELSE satellites
     /\ hdop' = IF label = "hdop" THEN DecimalSet(hdop, text) ELSE hdop
     /\ altitude' = IF label = "altitude" THEN DecimalSet(altitude, text) ELSE altitude
     /\ custom' = StageCandidates(custom, customCandidates, customCandidates, curTermNumber, text)
     /\ ret' = FALSE
     /\ UNCHANGED <<curSentenceType, customCandidates, sentencesWithFixCount,
                    failedChecksumCount, passedChecksumCount>>

\* t is the term buffer with the terminator written, par the parity at the call.
endOfTermHandler(t, par) ==
  IF isChecksumTerm
  THEN \E a \in ReadByte(t[1]), b \in ReadByte(t[2]) :
         IF Checksum(a, b) = par THEN ChecksumPassed ELSE ChecksumFailed
  ELSE IF curTermNumber = 0 THEN SentenceNameTerm(t) ELSE DataTerm(t)

(***************************************************************************)
(* TinyGPSPlus::encode.                                                    *)
(***************************************************************************)
\* A parser that also folds the checksum text into parity.
OrdinaryParityOfEveryChar(par, c, checksumTerm) == U8(BitXor(par, Ascii(c)))

\* parity after an ordinary character.
OrdinaryParity(par, c, checksumTerm) ==
  IF checksumTerm THEN par ELSE U8(BitXor(par, Ascii(c)))

\* A parser that leaves the ',' out of the checksum.
TerminatorParityWithoutComma(par, c) == par

\* parity after a term terminator: only ',' is part of the checksum.
TerminatorParity(par, c) == IF c = "," THEN U8(BitXor(par, Ascii(c))) ELSE par

\* A sentence begin that keeps the kind of the sentence before.
SentenceBeginKeepingKind ==
  /\ curTermNumber' = 0
  /\ curTermOffset' = 0
  /\ parity' = 0
  /\ isChecksumTerm' = FALSE
  /\ sentenceHasFix' = FALSE
  /\ ret' = FALSE
  /\ UNCHANGED <<term, curSentenceType, customCandidates, sentencesWithFixCount,
                 failedChecksumCount, passedChecksumCount, nativeVars, custom>>

\* case '$': "sentence begin"
SentenceBegin ==
  /\ curTermNumber' = 0
  /\ curTermOffset' = 0
  /\ parity' = 0
  /\ curSentenceType' = GPS_SENTENCE_OTHER
  /\ isChecksumTerm' = FALSE
  /\ sentenceHasFix' = FALSE
  /\ ret' = FALSE
  /\ UNCHANGED <<term, customCandidates, sentencesWithFixCount, failedChecksumCount,
                 passedChecksumCount, nativeVars, custom>>

\* An ordinary character stored without a look at the room left.
OrdinaryCharUnchecked(c) ==
  /\ term' = [term EXCEPT ![curTermOffset + 1] = c]
  /\ curTermOffset' = curTermOffset + 1
  /\ parity' = OrdinaryParity(parity, c, isChecksumTerm)
  /\ ret' = FALSE
  /\ UNCHANGED <<isChecksumTerm, curTermNumber, handlerVars>>

\* default: "ordinary characters"
OrdinaryChar(c) ==
  /\ IF curTermOffset < GPS_MAX_FIELD_SIZE - 1
     THEN /\ term' = [term EXCEPT ![curTermOffset + 1] = c]
          /\ curTermOffset' = curTermOffset + 1
     ELSE UNCHANGED <<term, curTermOffset>>
  /\ parity' = OrdinaryParity(parity, c, isChecksumTerm)
  /\ ret' = FALSE
  /\ UNCHANGED <<isChecksumTerm, curTermNumber, handlerVars>>

encode(c) ==
  /\ encodedCharCount' = encodedCharCount + 1
  /\ lastOp' = Op("encode", 0)
  /\ again' = FALSE
  /\ UNCHANGED <<customElts, millis, got>>
  /\ IF c \in {",", "\r", "\n", "*"}
     THEN LET par == TerminatorParity(parity, c)
              t == [term EXCEPT ![curTermOffset + 1] = NUL]
          IN /\ parity' = par
             /\ IF curTermOffset < GPS_MAX_FIELD_SIZE
                THEN term' = t /\ endOfTermHandler(t, par)
                ELSE term' = term /\ ret' = FALSE /\ UNCHANGED handlerVars
             /\ curTermNumber' = U8(curTermNumber + 1)
             /\ curTermOffset' = 0
             /\ isChecksumTerm' = (c = "*")
     ELSE IF c = "$"
     THEN SentenceBegin
     ELSE OrdinaryChar(c)

(***************************************************************************)
(* The value accessors.  Each clears updated and returns the committed     *)
(* value; lat() and lng() return a double, kept here as the RawDegrees it  *)
(* is computed from.                                                       *)
(***************************************************************************)
Accessor(name, arg, value) ==
  /\ pending = <<>>
  /\ nCalls < MaxCalls
  /\ nCalls' = nCalls + 1
  /\ lastOp' = Op(name, arg)
  /\ again' = (lastOp = Op(name, arg))
  /\ got' = value
  /\ UNCHANGED <<parserVars, millis, ret, inputVars>>

\* An isUpdated() that also looks at the custom fields.
isUpdatedWithCustom ==
  \/ location.updated \/ date.updated \/ time.updated \/ speed.updated \/ course.updated
  \/ altitude.updated \/ satellites.updated \/ hdop.updated
  \/ \E p \in DOMAIN custom : custom[p].updated

\* TinyGPSPlus::isUpdated.
isUpdated ==
  \/ location.updated \/ date.updated \/ time.updated \/ speed.updated \/ course.updated
  \/ altitude.updated \/ satellites.updated \/ hdop.updated

LocationLat ==
  /\ Accessor("location.lat", 0, location.rawLatData)
  /\ location' = [location EXCEPT !.updated = FALSE]
  /\ UNCHANGED <<date, time, speed, course, altitude, satellites, hdop, custom>>

LocationLng ==
  /\ Accessor("location.lng", 0, location.rawLngData)
  /\ location' = [location EXCEPT !.updated = FALSE]
  /\ UNCHANGED <<date, time, speed, course, altitude, satellites, hdop, custom>>

\* An accessor that also takes the value for read and gone.
DateValueInvalidating ==
  /\ Accessor("date.value", 0, date.date)
  /\ date' = [date EXCEPT !.updated = FALSE, !.valid = FALSE]
  /\ UNCHANGED <<location, time, speed, course, altitude, satellites, hdop, custom>>

DateValue ==
  /\ Accessor("date.value", 0, date.date)
  /\ date' = [date EXCEPT !.updated = FALSE]
  /\ UNCHANGED <<location, time, speed, course, altitude, satellites, hdop, custom>>

TimeValue ==
  /\ Accessor("time.value", 0, time.time)
  /\ time' = [time EXCEPT !.updated = FALSE]
  /\ UNCHANGED <<location, date, speed, course, altitude, satellites, hdop, custom>>

SpeedValue ==
  /\ Accessor("speed.value", 0, speed.val)
  /\ speed' = [speed EXCEPT !.updated = FALSE]
  /\ UNCHANGED <<location, date, time, course, altitude, satellites, hdop, custom>>

CourseValue ==
  /\ Accessor("course.value", 0, course.val)
  /\ course' = [course EXCEPT !.updated = FALSE]
  /\ UNCHANGED <<location, date, time, speed, altitude, satellites, hdop, custom>>

AltitudeValue ==
  /\ Accessor("altitude.value", 0, altitude.val)
  /\ altitude' = [altitude EXCEPT !.updated = FALSE]
  /\ UNCHANGED <<location, date, time, speed, course, satellites, hdop, custom>>

SatellitesValue ==
  /\ Accessor("satellites.value", 0, satellites.val)
  /\ satellites' = [satellites EXCEPT !.updated = FALSE]
  /\ UNCHANGED <<location, date, time, speed, course, altitude, hdop, custom>>

HdopValue ==
  /\ Accessor("hdop.value", 0, hdop.val)
  /\ hdop' = [hdop EXCEPT !.updated = FALSE]
  /\ UNCHANGED <<location, date, time, speed, course, altitude, satellites, custom>>

CustomValue ==
  \E p \in DOMAIN custom :
    /\ Accessor("custom.value", p, custom[p].buffer)
    /\ custom' = [custom EXCEPT ![p].updated = FALSE]
    /\ UNCHANGED nativeVars

(***************************************************************************)
(* The caller's input.  The caller feeds whole sentences, one character at *)
(* a time.  The texts of the fields depend on the number k of the sentence *)
(* in the run, so that no two sentences of a run carry the same values.    *)
(***************************************************************************)
GPGSAterm == <<"G", "P", "G", "S", "A">>

Last(s) == IF s = <<>> THEN NUL ELSE s[Len(s)]
D(k) == Digits[(k % 10) + 1]

TimeText(k) == <<D(k), ".", "5">>
LatText(k) == <<"4", "8", "0", D(k), ".", "5">>
LngText(k) == <<"1", "1", "3", D(k)>>
SpeedText(k) == <<D(k), ".", "2">>
CourseText(k) == <<"8", D(k)>>
DateText(k) == <<"2", "3", "0", "3", "9", D(k)>>
SatellitesText(k) == <<D(k)>>
HdopText(k) == <<"0", ".", D(k)>>
AltitudeText(k) == <<"-", D(k)>>
LatHemisphere(k) == IF k % 2 = 0 THEN <<"S">> ELSE <<"N">>
LngHemisphere(k) == IF k % 2 = 0 THEN <<"W">> ELSE <<"E">>
Long(n) == SubSeq(UpperCase, 1, n)

\* The data fields of a position/velocity and of a fix-data sentence; fix is
\* the text of the validity or fix-quality field, blank leaves the latitude empty.
RMCFields(k, fix, blank) ==
  <<TimeText(k), fix, IF blank THEN <<>> ELSE LatText(k), LatHemisphere(k), LngText(k),
    LngHemisphere(k), SpeedText(k), CourseText(k), DateText(k)>>
GGAFields(k, fix, blank) ==
  <<TimeText(k), IF blank THEN <<>> ELSE LatText(k), LatHemisphere(k), LngText(k),
    LngHemisphere(k), fix, SatellitesText(k), HdopText(k), AltitudeText(k)>>

\* <<number of data fields, fix text, latitude left empty>>
RMCShapes == {<<2, <<"A">>, FALSE>>, <<2, <<"V">>, FALSE>>, <<3, <<"A">>, FALSE>>,
              <<3, <<"V">>, FALSE>>, <<9, <<"A">>, FALSE>>, <<9, <<"A">>, TRUE>>,
              <<9, <<"V">>, FALSE>>}
GGAShapes == {<<5, <<"1">>, FALSE>>, <<6, <<"1">>, FALSE>>, <<6, <<"1">>, TRUE>>,
              <<6, <<"0">>, FALSE>>, <<9, <<"1">>, FALSE>>, <<9, <<"0">>, FALSE>>}

\* A sentence of the input: its name, its data fields and how it ends:
\*   "good"   '*', the checksum in upper-case hex digits, CR, LF
\*   "lower"  the same in lower-case hex digits
\*   "bad"    '*', a checksum with one bit wrong, CR, LF
\*   "cut"    broken off after a ',': the next sentence follows at once
\*   "alias"  '*', a letter from 'G' to 'V' and a hex digit, CR, LF
\*   "single" '*', one hex digit, CR, LF
\*   "empty"  '*', CR, LF
\*   "twice"  '*', the checksum, and once more '*', the checksum; CR, LF
Shape(name, fields, end) == [name |-> name, fields |-> fields, end |-> end]

Sentences(k) ==
  {Shape(GPRMCterm, SubSeq(RMCFields(k, s[2], s[3]), 1, s[1]), e) :
     s \in RMCShapes, e \in {"good", "bad"}}
  \cup {Shape(GPGGAterm, SubSeq(GGAFields(k, s[2], s[3]), 1, s[1]), e) :
     s \in GGAShapes, e \in {"good", "bad"}}
  \cup {Shape(GNRMCterm, RMCFields(k, <<"A">>, FALSE), "good"),
        Shape(GNGGAterm, GGAFields(k, <<"1">>, FALSE), "good"),
        Shape(GPRMCterm, SubSeq(RMCFields(k, <<"A">>, FALSE), 1, 3), "cut")}
  \cup {Shape(GPGSAterm, <<t>>, e) :
     t \in {<<"M", D(k)>>, Long(GPS_MAX_FIELD_SIZE - 1), Long(GPS_MAX_FIELD_SIZE)},
     e \in {"good", "lower", "bad"}}
  \cup {Shape(GPGSAterm, <<<<"M", D(k)>>, <<D(k)>>>>, e) : e \in {"good", "bad"}}

\* The exclusive-or of the bytes of a text.
RECURSIVE XorAll(_)
XorAll(s) ==
  IF s = <<>> THEN 0
  ELSE IF Len(s) = 1 THEN Ascii(s[1])
  ELSE BitXor(XorAll(SubSeq(s, 1, Len(s) \div 2)), XorAll(SubSeq(s, Len(s) \div 2 + 1, Len(s))))

HexDigitsUpper == Digits \o SubSeq(UpperCase, 1, 6)
HexDigitsLower == Digits \o LowerHex
Hex2(x, digits) == <<digits[(x \div 16) + 1], digits[(x % 16) + 1]>>

RECURSIVE Join(_)
Join(fields) ==
  IF fields = <<>> THEN <<>>
  ELSE IF Len(fields) = 1 THEN <<",">> \o fields[1]
  ELSE Join(SubSeq(fields, 1, Len(fields) \div 2))
         \o Join(SubSeq(fields, Len(fields) \div 2 + 1, Len(fields)))

\* A letter from 'G' to 'V' that fromHex reads as n plus a multiple of 16.
AliasDigit(n) == UpperCase[IF n >= 7 THEN n ELSE n + 16]

\* The characters of a sentence.
Text(sh) ==
  LET body == sh.name \o Join(sh.fields)
      x == XorAll(body)
  IN <<"$">> \o body \o
     (CASE sh.end = "good" -> <<"*">> \o Hex2(x, HexDigitsUpper) \o <<"\r", "\n">>
        [] sh.end = "lower" -> <<"*">> \o Hex2(x, HexDigitsLower) \o <<"\r", "\n">>
        [] sh.end = "bad" -> <<"*">> \o Hex2(BitXor(x, 1), HexDigitsUpper) \o <<"\r", "\n">>
        [] sh.end = "cut" -> <<",">>
        [] sh.end = "alias" ->
             <<"*", AliasDigit(x \div 16), HexDigitsUpper[(x % 16) + 1], "\r", "\n">>
        [] sh.end = "single" -> <<"*", HexDigitsUpper[((x \div 16 + 3) % 16) + 1], "\r", "\n">>
        [] sh.end = "empty" -> <<"*", "\r", "\n">>
        [] sh.end = "twice" ->
             <<"*">> \o Hex2(x, HexDigitsUpper) \o <<"*">> \o Hex2(x, HexDigitsUpper)
               \o <<"\r", "\n">>)

\* The terms a sentence costs of the run's bound: its name and its data fields.
Cost(sh) == 1 + Len(sh.fields)

\* The custom fields the caller registers, in this order, before it feeds.
CustomKey(i) ==
  [sentenceName |-> IF i % 2 = 1 THEN GPGSAterm ELSE GPRMCterm,
   termNumber |-> ((i - 1) \div 2) + 1]

\* What the parser holds for its readers: the counters of the sentences, the
\* native containers and the custom entries.
Held ==
  [sentencesWithFix |-> sentencesWithFixCount, failedChecksum |-> failedChecksumCount,
   passedChecksum |-> passedChecksumCount, location |-> location, date |-> date,
   time |-> time, speed |-> speed, course |-> course, altitude |-> altitude,
   satellites |-> satellites, hdop |-> hdop, custom |-> custom]

\* The caller is between two sentences.
AtRest == pending = <<>>

\* The caller feeds one character: the first of one of the texts, or the next
\* one of the text being fed.  A caller that watches writes down, when the
\* text ends, its last sentence and what the parser answered to it.
FeedText(texts, watching) ==
  /\ Cardinality(DOMAIN custom) = MaxCustom
  /\ \E chunk \in (IF AtRest THEN texts ELSE {pending}) :
       LET c == Head(chunk)
       IN /\ encode(c)
          /\ pending' = Tail(chunk)
          /\ sent' = IF c = "$" THEN <<c>> ELSE Append(sent, c)
          /\ rets' = IF c = "$" THEN <<ret'>> ELSE Append(rets, ret')
          /\ before' = IF c = "$" THEN Held ELSE before
          /\ nSentences' = nSentences + (IF c = "$" THEN 1 ELSE 0)
          /\ nTerms' = nTerms + (IF c \in {"$", ","} THEN 1 ELSE 0)
          /\ validated' = IF ret' THEN validated \cup {nSentences'} ELSE validated
          /\ tally' = [calls |-> tally.calls + 1,
                       trues |-> tally.trues + (IF ret' THEN 1 ELSE 0)]
          /\ noted' = IF watching /\ Tail(chunk) = <<>>
                      THEN noted \cup
                             {[text |-> sent', rets |-> rets',
                               passed |-> passedChecksumCount' - before'.passedChecksum,
                               failed |-> failedChecksumCount' - before'.failedChecksum,
                               fix |-> sentencesWithFixCount' - before'.sentencesWithFix]}
                      ELSE noted
          /\ UNCHANGED nCalls

\* The texts are the sentences of the menu that the bounds still allow.
FeedWithin(menu, most) ==
  FeedText({Text(sh) : sh \in {m \in menu : nSentences < MaxSentences
                                            /\ nTerms + Cost(m) <= most}}, FALSE)

FeedFrom(menu) == FeedWithin(menu, MaxTerms)

Feed == FeedFrom(Sentences(nSentences + 1))

\* The caller calls begin() on one of its TinyGPSCustom objects.
RegisterOn(pElt, sentenceName, termNumber) ==
  /\ encodedCharCount = 0
  /\ begin(pElt, sentenceName, termNumber)
  /\ lastOp' = Op("begin", pElt)
  /\ again' = FALSE
  /\ UNCHANGED <<parity, isChecksumTerm, term, curSentenceType, curTermNumber, curTermOffset,
                 sentenceHasFix, customCandidates, encodedCharCount, sentencesWithFixCount,
                 failedChecksumCount, passedChecksumCount, nativeVars, millis, ret, got,
                 inputVars, nCalls>>

\* The object is a new one.
RegisterWith(sentenceName, termNumber) ==
  /\ Cardinality(DOMAIN custom) < MaxCustom
  /\ RegisterOn(Cardinality(DOMAIN custom) + 1, sentenceName, termNumber)

Register ==
  LET pElt == Cardinality(DOMAIN custom) + 1
  IN RegisterWith(CustomKey(pElt).sentenceName, CustomKey(pElt).termNumber)

\* The millisecond clock advances, between two sentences and once between
\* two calls.
Tick ==
  /\ AtRest
  /\ lastOp.op # "tick"
  /\ nCalls < MaxCalls
  /\ nCalls' = nCalls + 1
  /\ millis' = Add32(millis, One32)
  /\ lastOp' = Op("tick", 0)
  /\ again' = FALSE
  /\ UNCHANGED <<parserVars, nativeVars, custom, ret, got, inputVars>>

\* The bytes of term[] after term[0] are not initialised by the constructor.
\* The parser as its constructor leaves it; the caller has called nothing yet.
Constructed ==
  /\ parity = 0
  /\ isChecksumTerm = FALSE
  /\ term = [i \in 1..GPS_MAX_FIELD_SIZE |-> IF i = 1 THEN NUL ELSE INDETERMINATE]
  /\ curSentenceType = GPS_SENTENCE_OTHER
  /\ curTermNumber = 0
  /\ curTermOffset = 0
  /\ sentenceHasFix = FALSE
  /\ customElts = NULL
  /\ customCandidates = NULL
  /\ encodedCharCount = 0
  /\ sentencesWithFixCount = 0
  /\ failedChecksumCount = 0
  /\ passedChecksumCount = 0
  /\ location = TinyGPSLocation
  /\ date = TinyGPSDate
  /\ time = TinyGPSTime
  /\ speed = TinyGPSDecimal
  /\ course = TinyGPSDecimal
  /\ altitude = TinyGPSDecimal
  /\ satellites = TinyGPSInteger
  /\ hdop = TinyGPSDecimal
  /\ custom = <<>>
  /\ millis = Zero32
  /\ lastOp = Op("new", 0)
  /\ again = FALSE
  /\ ret = FALSE
  /\ got = 0
  /\ sent = <<>>
  /\ rets = <<>>
  /\ before = Held
  /\ nSentences = 0
  /\ nTerms = 0
  /\ validated = {}
  /\ noted = {}
  /\ tally = [calls |-> 0, trues |-> 0]
  /\ nCalls = 0

Init == Constructed /\ pending = <<>>

Next == Feed \/ Register \/ Tick

Spec == Init /\ [][Next]_vars

(***************************************************************************)
(* The caller that also reads: between two sentences it calls the value    *)
(* accessors.  It feeds fewer kinds of sentences.                          *)
(***************************************************************************)
ReadSentences(k) ==
  {Shape(GPRMCterm, SubSeq(RMCFields(k, <<"A">>, FALSE), 1, 2), "good"),
   Shape(GPRMCterm, SubSeq(RMCFields(k, <<"A">>, FALSE), 1, 3), "cut"),
   Shape(GPGGAterm, SubSeq(GGAFields(k, <<"1">>, FALSE), 1, 6), "good"),
   Shape(GPGSAterm, <<<<"M", D(k)>>>>, "good"),
   Shape(GPGSAterm, <<<<"M", D(k)>>, <<D(k)>>>>, "good")}

FeedFew == FeedFrom(ReadSentences(nSentences + 1))

Read ==
  \/ LocationLat
  \/ LocationLng
  \/ DateValue
  \/ TimeValue
  \/ SpeedValue
  \/ CourseValue
  \/ AltitudeValue
  \/ SatellitesValue
  \/ HdopValue
  \/ CustomValue

NextRead == FeedFew \/ Register \/ Tick \/ Read

SpecRead == Init /\ [][NextRead]_vars

(***************************************************************************)
(* The caller that waits: the clock also advances by 2^32 - 1 ms at once,  *)
(* which takes it round.                                                   *)
(***************************************************************************)
ClockSentences(k) ==
  {Shape(GPRMCterm, SubSeq(RMCFields(k, <<"A">>, FALSE), 1, 2), "good"),
   Shape(GPRMCterm, SubSeq(RMCFields(k, <<"A">>, FALSE), 1, 2), "bad"),
   Shape(GPGSAterm, <<<<"M", D(k)>>>>, "good")}

FeedClock == FeedFrom(ClockSentences(nSentences + 1))

Wait ==
  /\ AtRest
  /\ lastOp.op # "wait"
  /\ nCalls < MaxCalls
  /\ nCalls' = nCalls + 1
  /\ millis' = Add32(millis, ULONG_MAX32)
  /\ lastOp' = Op("wait", 0)
  /\ again' = FALSE
  /\ UNCHANGED <<parserVars, nativeVars, custom, ret, got, inputVars>>

NextClock == FeedClock \/ Register \/ Tick \/ Wait \/ Read

SpecClock == Init /\ [][NextClock]_vars

(***************************************************************************)
(* The caller of the static parsing functions: it holds one text, a number *)
(* for parseDecimal or an angle for parseDegrees, and passes it.            *)
(***************************************************************************)
Words(alphabet, n) == UNION {[1..k -> alphabet] : k \in 0..n}

DecimalTexts ==
  {sign \o whole \o fraction :
     sign \in {<<>>, <<"-">>},
     whole \in Words({"0", "5", "9"}, MaxDigits) \ {<<>>},
     fraction \in {<<>>} \cup {<<".">> \o w : w \in Words({"0", "6", "9"}, MaxDigits)}}
  \cup {<<"1", "2", "3", ".", "4", "5", "6">>, <<"-", "5">>, <<"0", ".", "6">>,
        <<"-", "0", ".", "5">>}

DegreesTexts ==
  {degrees \o minutes \o fraction :
     degrees \in {<<>>, <<"0">>, <<"4", "8">>, <<"1", "7", "9">>},
     minutes \in {<<"0", "0">>, <<"0", "7">>, <<"5", "9">>},
     fraction \in {<<>>} \cup {<<".">> \o w : w \in Words({"0", "9"}, MaxFraction)}}
  \cup {<<"4", "8", "0", "7", ".", "0", "3", "8">>}

Call(name, value) ==
  /\ lastOp' = Op(name, pending)
  /\ again' = FALSE
  /\ got' = value
  /\ UNCHANGED <<parserVars, nativeVars, custom, millis, ret, inputVars, nCalls>>

ParseDecimal == pending \in DecimalTexts /\ Call("parseDecimal", parseDecimal(pending))
ParseDegrees == pending \in DegreesTexts /\ Call("parseDegrees", parseDegrees(pending))

InitPure == Constructed /\ pending \in DecimalTexts \cup DegreesTexts
NextPure == ParseDecimal \/ ParseDegrees
SpecPure == InitPure /\ [][NextPure]_vars

(***************************************************************************)
(* The caller that only registers: custom fields of any of a few names and *)
(* indices, equal ones too, in any order.                                  *)
(***************************************************************************)
RegistryNames == {<<"G", "P">>, GPGSAterm, GPRMCterm}
RegistryNumbers == {-1, 1, 2}

RegisterAny ==
  \E sentenceName \in RegistryNames, termNumber \in RegistryNumbers :
    RegisterWith(sentenceName, termNumber)

NextRegistry == RegisterAny
SpecRegistry == Init /\ [][NextRegistry]_vars

(***************************************************************************)
(* The caller that feeds long sentences: names of 15 characters, more than *)
(* 32 data fields, more than 255 data fields.  Its custom fields are       *)
(* registered under the long name, under the 14 first characters of it,    *)
(* and under names the parser knows.                                       *)
(***************************************************************************)
Blank(n) == [i \in 1..n |-> <<>>]

LongKey(i) ==
  [sentenceName |-> CASE i = 1 -> Long(GPS_MAX_FIELD_SIZE)
                      [] i = 2 -> Long(GPS_MAX_FIELD_SIZE - 1)
                      [] i = 3 -> GPRMCterm
                      [] OTHER -> GPGSAterm,
   termNumber |-> 1]

LongSentences(k) ==
  {\* a fix-data sentence of 12 fields
   Shape(GPGGAterm, GGAFields(k, <<"1">>, FALSE) \o <<<<"M">>, TimeText(k + 1), <<"A">>>>, "good"),
   \* a fix-data sentence without a fix whose fields 33 and 34 are a number and "A"
   Shape(GPGGAterm, GGAFields(k, <<"0">>, FALSE) \o Blank(23) \o <<TimeText(k + 1), <<"A">>>>,
         "good"),
   \* a sentence with a name of 15 characters
   Shape(Long(GPS_MAX_FIELD_SIZE), <<<<D(k)>>>>, "good"),
   \* a sentence of an unknown name whose field 256 reads GPRMC
   Shape(GPGSAterm, <<<<D(k)>>>> \o Blank(254) \o <<GPRMCterm, TimeText(k + 1), <<"A">>>>,
         "good")}

FeedLong == FeedWithin(LongSentences(nSentences + 1), MaxLongTerms)

RegisterLong ==
  LET pElt == Cardinality(DOMAIN custom) + 1
  IN RegisterWith(LongKey(pElt).sentenceName, LongKey(pElt).termNumber)

NextLong == FeedLong \/ RegisterLong
SpecLong == Init /\ [][NextLong]_vars

(***************************************************************************)
(* The caller that feeds sentences with odd checksum fields: a letter that *)
(* is no hex digit in it, one character only, or none, or the checksum     *)
(* field written twice.                                                    *)
(***************************************************************************)
ChecksumSentences(k) ==
  {Shape(GPGSAterm, <<<<"M", D(k)>>>>, e) : e \in {"good", "bad", "alias", "single", "empty"}}
  \cup {Shape(<<" ">>, <<>>, e) : e \in {"good", "single", "empty"}}
  \cup {Shape(GPGSAterm, <<<<"M", D(k)>>>>, "twice"),
        Shape(GPRMCterm, <<TimeText(k), <<"A">>>>, "twice")}

FeedChecksum == FeedFrom(ChecksumSentences(nSentences + 1))

NextChecksum == FeedChecksum \/ Register
SpecChecksum == Init /\ [][NextChecksum]_vars

(***************************************************************************)
(* The caller that watches a sentence after feeding something else: garbage,*)
(* a sentence cut before its checksum, or a whole sentence; or nothing, to *)
(* the parser just constructed.  After the first text every prior input    *)
(* writes the second byte of the term buffer, so that a later read of it   *)
(* is a read of a byte the parser wrote.                                   *)
(***************************************************************************)
PriorTexts(k) ==
  (IF k = 1 THEN {<<>>} ELSE {})
  \cup {<<"1", "0", ",">>, <<"M", "1", "\r", "\n">>}
  \cup {Text(sh) : sh \in {Shape(GPRMCterm, <<TimeText(1), <<"A">>>>, "cut"),
                           Shape(GPGSAterm, <<<<"M", "1">>>>, "good"),
                           Shape(GPGSAterm, <<<<"M", "3">>>>, "good")}}

WatchedSentences ==
  {Shape(<<>>, <<>>, "empty"), Shape(<<>>, <<<<>>, <<>>>>, "empty"),
   Shape(GPGSAterm, <<<<"M", "1">>>>, "good"), Shape(GPGSAterm, <<<<"M", "1">>>>, "bad"),
   Shape(GPGSAterm, <<<<"M", "1">>>>, "single"), Shape(GPGSAterm, <<<<"M", "1">>>>, "empty"),
   Shape(GPRMCterm, <<TimeText(1), <<"A">>>>, "good"),
   Shape(GPRMCterm, <<TimeText(1), <<"V">>>>, "good")}

FeedPrior ==
  FeedText({p \o Text(sh) : p \in {q \in PriorTexts(nSentences + 1) : nSentences < MaxSentences},
                           sh \in WatchedSentences}, TRUE)

NextPrior == FeedPrior \/ Register
SpecPrior == Init /\ [][NextPrior]_vars

(***************************************************************************)
(* The vocabulary of the properties: the sentence as the caller wrote it   *)
(* (sent), taken apart without the parser.                                 *)
(***************************************************************************)
First(s, c) == CHOOSE i \in 1..Len(s) : s[i] = c /\ \A j \in 1..(i - 1) : s[j] # c

\* The bytes between '$' and '*', and the bytes after the '*'.
BodyOf(s) ==
  IF s = <<>> THEN <<>>
  ELSE IF Occurs(s, "*") THEN SubSeq(s, 2, First(s, "*") - 1) ELSE Tail(s)
TailOf(s) == IF Occurs(s, "*") THEN SubSeq(s, First(s, "*") + 1, Len(s)) ELSE <<>>

\* The place of the ',' at which to cut s in two: the first one in the second
\* half of s or, there being none, the last one in the first half.
MiddleComma(s) ==
  LET mid == (Len(s) + 1) \div 2
  IN IF \E i \in mid..Len(s) : s[i] = ","
     THEN CHOOSE i \in mid..Len(s) : s[i] = "," /\ \A j \in mid..(i - 1) : s[j] # ","
     ELSE CHOOSE i \in 1..(mid - 1) : s[i] = "," /\ \A j \in (i + 1)..(mid - 1) : s[j] # ","

\* The texts between the ','s of s.
RECURSIVE Split(_)
Split(s) ==
  IF Occurs(s, ",")
  THEN Split(SubSeq(s, 1, MiddleComma(s) - 1)) \o Split(SubSeq(s, MiddleComma(s) + 1, Len(s)))
  ELSE <<s>>

\* The name and the data fields of the sentence.
NameOf(s) == Head(Split(BodyOf(s)))
FieldsOf(s) == Tail(Split(BodyOf(s)))

IsHexDigit(c) == Occurs(HexDigitsUpper, c) \/ Occurs(HexDigitsLower, c)
HexValue(c) ==
  IF Occurs(HexDigitsUpper, c) THEN First(HexDigitsUpper, c) - 1 ELSE First(HexDigitsLower, c) - 1

\* '$' name (',' field)* '*' h1 h2 CR LF, all of it fed.
WellFormed(s) ==
  /\ s # <<>>
  /\ Head(s) = "$"
  /\ Occurs(s, "*")
  /\ ~Occurs(BodyOf(s), "\r")
  /\ ~Occurs(BodyOf(s), "\n")
  /\ Len(TailOf(s)) = 4
  /\ IsHexDigit(TailOf(s)[1])
  /\ IsHexDigit(TailOf(s)[2])
  /\ TailOf(s)[3] = "\r"
  /\ TailOf(s)[4] = "\n"
DigitsValueOf(s) == 16 * HexValue(TailOf(s)[1]) + HexValue(TailOf(s)[2])
GoodSentence(s) == WellFormed(s) /\ DigitsValueOf(s) = XorAll(BodyOf(s))
BadSentence(s) == WellFormed(s) /\ DigitsValueOf(s) # XorAll(BodyOf(s))

IsRMC(s) == s # <<>> /\ NameOf(s) \in {GPRMCterm, GNRMCterm}
IsGGA(s) == s # <<>> /\ NameOf(s) \in {GPGGAterm, GNGGAterm}

\* The sentence says it has a fix: field 2 of a position/velocity sentence
\* begins with 'A', field 6 of a fix-data sentence with a char above '0'.
SaysFix(s) ==
  LET f == FieldsOf(s)
  IN \/ IsRMC(s) /\ Len(f) >= 2 /\ f[2] # <<>> /\ f[2][1] = "A"
     \/ IsGGA(s) /\ Len(f) >= 6 /\ f[6] # <<>> /\ Ascii(f[6][1]) > Ascii("0")

\* The sentence has just validated: encode() has returned true on it.
JustValidated == lastOp.op = "encode" /\ ret

\* What a reader can see of a container: all but the staged value.
PublishedLocation(l) == <<l.valid, l.updated, l.rawLatData, l.rawLngData, l.lastCommitTime>>
PublishedDate(d) == <<d.valid, d.updated, d.date, d.lastCommitTime>>
PublishedTime(t) == <<t.valid, t.updated, t.time, t.lastCommitTime>>
PublishedNumber(d) == <<d.valid, d.updated, d.val, d.lastCommitTime>>
PublishedCustom(e) == <<e.valid, e.updated, e.buffer, e.lastCommitTime>>
PublishedNative(h) ==
  <<PublishedLocation(h.location), PublishedDate(h.date), PublishedTime(h.time),
    PublishedNumber(h.speed), PublishedNumber(h.course), PublishedNumber(h.altitude),
    PublishedNumber(h.satellites), PublishedNumber(h.hdop)>>
Published(h) == <<PublishedNative(h), [p \in DOMAIN h.custom |-> PublishedCustom(h.custom[p])]>>

\* The committed values alone.
NativeValues(h) ==
  <<h.location.rawLatData, h.location.rawLngData, h.date.date, h.time.time, h.speed.val,
    h.course.val, h.altitude.val, h.satellites.val, h.hdop.val>>

(***************************************************************************)
(* C1.  A well-formed sentence whose two hex digits equal the exclusive-or *)
(* of its body makes encode() return true on exactly one character, the CR *)
(* that ends the checksum field, and false on every other character, the   *)
(* checksum digits and the LF included.                                    *)
(***************************************************************************)
C1_TrueExactlyOnChecksumTerminator ==
  GoodSentence(sent) => \A i \in 1..Len(sent) : rets[i] = (i = Len(sent) - 1)

C1_Witness ==
  /\ GoodSentence(sent)
  /\ Len(FieldsOf(sent)) >= 2
  /\ rets[Len(sent) - 1]
  /\ ~rets[Len(sent)]

C3_BadChecksumOnlyCounts ==
  BadSentence(sent) =>
    /\ \A i \in 1..Len(sent) : ~rets[i]
    /\ failedChecksumCount = before.failedChecksum + 1
    /\ passedChecksumCount = before.passedChecksum
    /\ sentencesWithFixCount = before.sentencesWithFix
    /\ PublishedNative(Held) = PublishedNative(before)

C3_Witness ==
  /\ BadSentence(sent)
  /\ IsRMC(sent)
  /\ Len(FieldsOf(sent)) = 3
  /\ SaysFix(sent)
  /\ before.passedChecksum = 1
  /\ failedChecksumCount = 1
  /\ location.rawNewLatData # location.rawLatData

(***************************************************************************)
(* C4.  An encode() call that returns false leaves what the readers see of *)
(* every native container and every custom entry (committed value, valid,  *)
(* updated, time of the last commit) as it was; a committed value changes  *)
(* only in an encode() call that returns true.                             *)
(***************************************************************************)
C4_FalseEncodeKeepsPublished ==
  [][/\ (lastOp'.op = "encode" /\ ~ret') => Published(Held)' = Published(Held)
     /\ (\/ NativeValues(Held)' # NativeValues(Held)
         \/ \E p \in DOMAIN custom : custom'[p].buffer # custom[p].buffer)
        => (lastOp'.op = "encode" /\ ret')]_vars

C4_Witness ==
  /\ lastOp.op = "encode"
  /\ ~ret
  /\ Last(sent) = ","
  /\ location.rawNewLatData.negative
  /\ ~location.rawLatData.negative
  /\ location.valid
  /\ Less32(location.lastCommitTime, millis)

(***************************************************************************)
(* What sentence k of the run carries, as the containers hold it.          *)
(***************************************************************************)
Magnitude(r) == <<r.deg, r.billionths>>
LatOf(k) == [parseDegrees(LatText(k)) EXCEPT !.negative = (LatHemisphere(k) = <<"S">>)]
LngOf(k) == [parseDegrees(LngText(k)) EXCEPT !.negative = (LngHemisphere(k) = <<"W">>)]

\* The sentences begun so far that did not validate.
Unvalidated == (1..nSentences) \ validated

(***************************************************************************)
(* C5.  As stated: no container's committed value is a value that only a   *)
(* sentence that did not validate has staged, also when a later valid      *)
(* sentence has the field empty or lacks it.                               *)
(***************************************************************************)
C5_Original ==
  \A k \in Unvalidated :
    /\ Magnitude(location.rawLatData) # Magnitude(LatOf(k))
    /\ Magnitude(location.rawLngData) # Magnitude(LngOf(k))
    /\ time.time # parseDecimal(TimeText(k))
    /\ date.date # atol(DateText(k))
    /\ speed.val # parseDecimal(SpeedText(k))
    /\ course.val # parseDecimal(CourseText(k))
    /\ altitude.val # parseDecimal(AltitudeText(k))
    /\ satellites.val # atol(SatellitesText(k))
    /\ hdop.val # parseDecimal(HdopText(k))
    /\ \A p \in DOMAIN custom : custom[p].buffer \notin {TimeText(k), <<"M", D(k)>>, <<D(k)>>}

(***************************************************************************)
(* C6.  As stated: the committed latitude and the committed longitude of   *)
(* location, magnitude and sign, come from one and the same validated      *)
(* sentence.                                                               *)
(***************************************************************************)
C6_Original ==
  location.valid =>
    \E k \in validated : location.rawLatData = LatOf(k) /\ location.rawLngData = LngOf(k)

(***************************************************************************)
(* C7.  From the '*' on, and so when the checksum field is compared,       *)
(* parity is the exclusive-or of every byte of the body: the ',' and the   *)
(* characters dropped from an over-long field are in it, the '$', the '*'  *)
(* and the checksum text are not.                                          *)
(***************************************************************************)
C7_ParityIsXorOfBody ==
  (/\ sent # <<>>
   /\ Occurs(sent, "*")
   /\ ~Occurs(BodyOf(sent), "\r")
   /\ ~Occurs(BodyOf(sent), "\n")
   /\ ~Occurs(TailOf(sent), ","))
  => parity = XorAll(BodyOf(sent))

C7_Witness ==
  /\ Last(sent) = "\r"
  /\ Len(TailOf(sent)) = 3
  /\ lastOp.op = "encode"
  /\ \E i \in 1..Len(FieldsOf(sent)) : Len(FieldsOf(sent)[i]) = GPS_MAX_FIELD_SIZE
  /\ parity = XorAll(BodyOf(sent))
  /\ parity # XorAll(NameOf(sent))

(***************************************************************************)
(* C8.  As stated: a sentence named N with a correct checksum and a        *)
(* populated field i makes the custom entry of (N, i) valid and updated    *)
(* with the text of the field as value, shortened only when the text is    *)
(* longer than GPS_MAX_FIELD_SIZE characters.                              *)
(***************************************************************************)
C8_Original ==
  JustValidated =>
    \A p \in DOMAIN custom :
      LET f == FieldsOf(sent)
          i == custom[p].termNumber
      IN (custom[p].sentenceName = NameOf(sent) /\ Len(f) >= i /\ f[i] # <<>>)
         => /\ custom[p].valid
            /\ custom[p].updated
            /\ custom[p].buffer = IF Len(f[i]) > GPS_MAX_FIELD_SIZE
                                  THEN SubSeq(f[i], 1, GPS_MAX_FIELD_SIZE)
                                  ELSE f[i]

(***************************************************************************)
(* The native containers by name, and what each accessor reads.            *)
(***************************************************************************)
Natives ==
  [location |-> location, date |-> date, time |-> time, speed |-> speed, course |-> course,
   altitude |-> altitude, satellites |-> satellites, hdop |-> hdop]

NativeAccessors ==
  {"location.lat", "location.lng", "date.value", "time.value", "speed.value", "course.value",
   "altitude.value", "satellites.value", "hdop.value"}

ContainerOf(accessor) ==
  CASE accessor \in {"location.lat", "location.lng"} -> "location"
    [] accessor = "date.value" -> "date"
    [] accessor = "time.value" -> "time"
    [] accessor = "speed.value" -> "speed"
    [] accessor = "course.value" -> "course"
    [] accessor = "altitude.value" -> "altitude"
    [] accessor = "satellites.value" -> "satellites"
    [] accessor = "hdop.value" -> "hdop"

CommittedValue(accessor) ==
  CASE accessor = "location.lat" -> location.rawLatData
    [] accessor = "location.lng" -> location.rawLngData
    [] accessor = "date.value" -> date.date
    [] accessor = "time.value" -> time.time
    [] accessor = "speed.value" -> speed.val
    [] accessor = "course.value" -> course.val
    [] accessor = "altitude.value" -> altitude.val
    [] accessor = "satellites.value" -> satellites.val
    [] accessor = "hdop.value" -> hdop.val

(***************************************************************************)
(* C9.  A value accessor of a native container or a custom entry returns   *)
(* the committed value, clears updated and changes nothing else (committed *)
(* value, staged value, valid, time of the last commit, any other          *)
(* container, the parser); called again with nothing in between it returns *)
(* the same value and updated is false.                                    *)
(***************************************************************************)
C9_ReadClearsUpdatedOnly ==
  [][/\ lastOp'.op \in NativeAccessors =>
          /\ Natives' = [Natives EXCEPT ![ContainerOf(lastOp'.op)].updated = FALSE]
          /\ got' = CommittedValue(lastOp'.op)
          /\ again' => got' = got
          /\ UNCHANGED <<custom, parserVars, millis>>
     /\ lastOp'.op = "custom.value" =>
          /\ custom' = [custom EXCEPT ![lastOp'.arg].updated = FALSE]
          /\ got' = custom[lastOp'.arg].buffer
          /\ again' => got' = got
          /\ UNCHANGED <<nativeVars, parserVars, millis>>]_vars

C9_Witness ==
  /\ again
  /\ lastOp.op = "location.lat"
  /\ location.valid
  /\ ~location.updated
  /\ got = location.rawLatData
  /\ got = LatOf(nSentences)
  /\ location.rawNewLatData = location.rawLatData

(***************************************************************************)
(* What a sentence stages and what it commits, from its text.              *)
(***************************************************************************)
\* The data fields of each kind that feed a native container.
FieldsFor(s, name) ==
  IF IsRMC(s)
  THEN (CASE name = "time" -> {1}
          [] name = "location" -> {3, 4, 5, 6}
          [] name = "speed" -> {7}
          [] name = "course" -> {8}
          [] name = "date" -> {9}
          [] OTHER -> {})
  ELSE IF IsGGA(s)
  THEN (CASE name = "time" -> {1}
          [] name = "location" -> {2, 3, 4, 5}
          [] name = "satellites" -> {7}
          [] name = "hdop" -> {8}
          [] name = "altitude" -> {9}
          [] OTHER -> {})
  ELSE {}

StagesNative(s, name) ==
  \E i \in FieldsFor(s, name) : i <= Len(FieldsOf(s)) /\ FieldsOf(s)[i] # <<>>
StagesCustom(s, e) == e.sentenceName = NameOf(s) /\ e.termNumber <= Len(FieldsOf(s))

\* The container was valid and read when the sentence began.
ReadBefore(c) == c.valid /\ ~c.updated

CommitsNative(s, name) ==
  \/ IsRMC(s) /\ name \in {"time", "date"}
  \/ IsRMC(s) /\ SaysFix(s) /\ name \in {"location", "speed", "course"}
  \/ IsGGA(s) /\ name \in {"time", "satellites", "hdop"}
  \/ IsGGA(s) /\ SaysFix(s) /\ name \in {"location", "altitude"}
CommittedNative(name) == JustValidated' /\ CommitsNative(sent', name)
CommittedCustom(p) == JustValidated' /\ custom'[p].sentenceName = NameOf(sent')

\* The sum of two uint32_t does not fit in 32 bits.
Carries32(a, b) == a[1] + b[1] + ((a[2] + b[2]) \div 65536) >= 65536

\* One step in the life of a container: c before, d after, the clock before
\* and after, whether the step committed it, and whether age() must not fall.
AgeStep(c, d, now, then, committed, mustNotFall) ==
  /\ ~d.valid => age(d, then) = ULONG_MAX32
  /\ d.valid # c.valid => committed
  /\ committed => d.valid /\ age(d, then) = Zero32
  /\ ~committed =>
       /\ d.lastCommitTime = c.lastCommitTime
       /\ c.valid => /\ age(d, then) = Add32(age(c, now), Sub32(then, now))
                     /\ mustNotFall => ~Less32(age(d, then), age(c, now))

(***************************************************************************)
(* C11.  As stated: age() is the sentinel before the first commit, 0 at    *)
(* the instant of a commit, and from then on never falls as the clock      *)
(* advances, until the next commit; failed sentences and reads leave the   *)
(* time of the last commit alone.                                          *)
(***************************************************************************)
C11_Original ==
  [][/\ \A name \in DOMAIN Natives :
          AgeStep(Natives[name], Natives'[name], millis, millis',
                  CommittedNative(name), TRUE)
     /\ \A p \in DOMAIN custom :
          AgeStep(custom[p], custom'[p], millis, millis', CommittedCustom(p), TRUE)]_vars

(***************************************************************************)
(* C11, as the code has it: age() is the sentinel before the first commit  *)
(* and (now - t) modulo 2^32 after a commit at t: 0 at the instant of the  *)
(* commit, growing by what the clock advances, and so not falling until    *)
(* 2^32 ms have passed since the commit; failed sentences and reads leave  *)
(* the time of the last commit alone.                                      *)
(***************************************************************************)
C11_AgeIsClockDifference ==
  [][/\ \A name \in DOMAIN Natives :
          AgeStep(Natives[name], Natives'[name], millis, millis', CommittedNative(name),
                  ~Carries32(age(Natives[name], millis), Sub32(millis', millis)))
     /\ \A p \in DOMAIN custom :
          AgeStep(custom[p], custom'[p], millis, millis', CommittedCustom(p),
                  ~Carries32(age(custom[p], millis), Sub32(millis', millis)))]_vars

C11_Witness ==
  /\ time.valid
  /\ ~altitude.valid
  /\ time.lastCommitTime = One32
  /\ millis = Zero32
  /\ age(time, millis) = ULONG_MAX32
  /\ age(altitude, millis) = ULONG_MAX32
  /\ failedChecksumCount = 1
  /\ \E p \in DOMAIN custom : custom[p].valid /\ age(custom[p], millis) = ULONG_MAX32

(***************************************************************************)
(* A number text read as the claim reads it: [-]digits[.digits].           *)
(***************************************************************************)
Negated(t) == t # <<>> /\ Head(t) = "-"
Unsigned(t) == IF Negated(t) THEN Tail(t) ELSE t
WholeDigits(t) ==
  IF Occurs(Unsigned(t), ".") THEN SubSeq(Unsigned(t), 1, First(Unsigned(t), ".") - 1)
  ELSE Unsigned(t)
FractionDigits(t) ==
  IF Occurs(Unsigned(t), ".")
  THEN SubSeq(Unsigned(t), First(Unsigned(t), ".") + 1, Len(Unsigned(t)))
  ELSE <<>>
AllDigits(w) == \A i \in 1..Len(w) : isdigit(w[i])

RECURSIVE Numeral(_)
Numeral(w) ==
  IF w = <<>> THEN 0 ELSE 10 * Numeral(SubSeq(w, 1, Len(w) - 1)) + DigitVal(w[Len(w)])

\* The i-th digit after the point, 0 when the text has none.
FractionDigit(t, i) ==
  IF i <= Len(FractionDigits(t)) THEN DigitVal(FractionDigits(t)[i]) ELSE 0

IsDecimalText(t) ==
  /\ WholeDigits(t) # <<>>
  /\ AllDigits(WholeDigits(t))
  /\ AllDigits(FractionDigits(t))

\* The call just made was of this function on this text.
Called(name, t) == lastOp.op = name /\ lastOp.arg = t

Hundredths(t) == 100 * Numeral(WholeDigits(t)) + 10 * FractionDigit(t, 1) + FractionDigit(t, 2)

(***************************************************************************)
(* C12.  parseDecimal of a text [-]digits[.digits] is 100 times the whole  *)
(* part plus 10 times the first digit after the point plus the second,     *)
(* negated under a leading '-'; a missing point or missing digits after it *)
(* count 0 and digits after the second are ignored.  "123.456" gives       *)
(* 12345, "-5" gives -500, "0.6" gives 60 and "-0.5" gives -50.            *)
(***************************************************************************)
C12_ParseDecimalIsHundredths ==
  /\ lastOp.op = "parseDecimal" /\ IsDecimalText(lastOp.arg) =>
       got = IF Negated(lastOp.arg) THEN 0 - Hundredths(lastOp.arg) ELSE Hundredths(lastOp.arg)
  /\ Called("parseDecimal", <<"1", "2", "3", ".", "4", "5", "6">>) => got = 12345
  /\ Called("parseDecimal", <<"-", "5">>) => got = -500
  /\ Called("parseDecimal", <<"0", ".", "6">>) => got = 60
  /\ Called("parseDecimal", <<"-", "0", ".", "5">>) => got = -50

C12_Witness ==
  /\ Called("parseDecimal", <<"-", "9", "5", ".", "6", "9", "0">>)
  /\ IsDecimalText(lastOp.arg)
  /\ got = -9569

(***************************************************************************)
(* An angle text read as the claim reads it: DDDMM[.f1f2...].              *)
(***************************************************************************)
IsDegreesText(t) ==
  /\ ~Negated(t)
  /\ IsDecimalText(t)
  /\ Numeral(WholeDigits(t)) % 100 < 60

\* floor(10^7 / 10^i)
TenMillionthsOfDigit(i) == IF i > 7 THEN 0 ELSE 10 ^ (7 - i)

RECURSIVE SumOfFraction(_, _)
SumOfFraction(t, i) ==
  IF i = 0 THEN 0
  ELSE SumOfFraction(t, i - 1) + FractionDigit(t, i) * TenMillionthsOfDigit(i)

\* T: the minutes of the text in ten-millionths.
TenMillionths(t) ==
  (Numeral(WholeDigits(t)) % 100) * 10000000 + SumOfFraction(t, Len(FractionDigits(t)))

\* floor((5 * T + 1) / 3), taken by parts: 5 * (3q + r) + 1 = 15q + 5r + 1.
RoundedFiveThirds(T) == 5 * (T \div 3) + (5 * (T % 3) + 1) \div 3

\* 5 * T + 1 < 2^32, that is 5 * T <= 2^32 - 2 = 5 * 858993458 + 4.
FitsIn32Bits(T) == T <= 858993458

(***************************************************************************)
(* C13.  parseDegrees of a text DDDMM[.f1f2...] with MM < 60 yields        *)
(* deg = value / 100, negative = false and billionths = floor((5T + 1)/3)  *)
(* for T = MM * 10^7 + the sum of f_i * floor(10^7 / 10^i): digits after   *)
(* the 7th count 0, 5T + 1 fits in 32 unsigned bits and billionths < 10^9. *)
(* "4807.038" gives deg 48 and billionths within 10^4 of 117300000.        *)
(***************************************************************************)
C13_ParseDegreesIsFiveThirdsOfMinutes ==
  /\ lastOp.op = "parseDegrees" /\ IsDegreesText(lastOp.arg) =>
       /\ got.deg = Numeral(WholeDigits(lastOp.arg)) \div 100
       /\ got.negative = FALSE
       /\ FitsIn32Bits(TenMillionths(lastOp.arg))
       /\ got.billionths = RoundedFiveThirds(TenMillionths(lastOp.arg))
       /\ got.billionths < 1000000000
  /\ Called("parseDegrees", <<"4", "8", "0", "7", ".", "0", "3", "8">>) =>
       /\ got.deg = 48
       /\ got.billionths > 117300000 - 10000
       /\ got.billionths < 117300000 + 10000

C13_Witness ==
  /\ Called("parseDegrees", <<"1", "7", "9", "5", "9", ".", "9", "9", "9", "9", "9", "9", "9", "9">>)
  /\ IsDegreesText(lastOp.arg)
  /\ got = [deg |-> 179, billionths |-> 999999998, negative |-> FALSE]

(***************************************************************************)
(* The registry as a reader of the list sees it.                           *)
(***************************************************************************)
\* The entries met from p on by following next, at most n of them.
RECURSIVE Walk(_, _)
Walk(p, n) == IF p = NULL \/ n = 0 THEN <<>> ELSE <<p>> \o Walk(custom[p].next, n - 1)

RegistryList == Walk(customElts, Cardinality(DOMAIN custom) + 1)

\* a <= b in lexicographic order of the character codes.
LexLeq(a, b) ==
  \E k \in 0..Len(a) :
    /\ k <= Len(b)
    /\ \A j \in 1..k : a[j] = b[j]
    /\ \/ k = Len(a)
       \/ k < Len(b) /\ Ascii(a[k + 1]) < Ascii(b[k + 1])

KeyLeq(e, f) ==
  /\ LexLeq(e.sentenceName, f.sentenceName)
  /\ e.sentenceName = f.sentenceName => e.termNumber <= f.termNumber

(***************************************************************************)
(* C14.  After any registrations of distinct entries, in any order and     *)
(* with equal (name, index) keys among them, the list holds every          *)
(* registered entry exactly once and is sorted: of two adjacent entries    *)
(* the first's name is lexicographically <= the second's and, the names    *)
(* equal, its index is <= the second's; so the entries of one name are one *)
(* contiguous run in ascending index order.                                *)
(***************************************************************************)
C14_RegistrySortedAndComplete ==
  LET l == RegistryList
  IN /\ Len(l) = Cardinality(DOMAIN custom)
     /\ {l[i] : i \in 1..Len(l)} = DOMAIN custom
     /\ \A i \in 1..Len(l) - 1 : KeyLeq(custom[l[i]], custom[l[i + 1]])
     /\ \A i, j \in 1..Len(l) :
          i < j /\ custom[l[i]].sentenceName = custom[l[j]].sentenceName =>
            /\ custom[l[i]].termNumber <= custom[l[j]].termNumber
            /\ \A k \in i..j : custom[l[k]].sentenceName = custom[l[i]].sentenceName

\* Three entries: the last one registered lands behind the entry of its own
\* key and before the entry registered first.
C14_Witness ==
  /\ lastOp = Op("begin", 3)
  /\ RegistryList = <<2, 3, 1>>
  /\ custom[2].sentenceName = custom[3].sentenceName
  /\ custom[2].termNumber = custom[3].termNumber
  /\ custom[1].sentenceName # custom[3].sentenceName

(***************************************************************************)
(* C15.  isUpdated() of the parser is true exactly when one of the eight   *)
(* native containers has its updated flag set; a read of a custom entry,   *)
(* and the commit of custom entries by a sentence of a name the parser     *)
(* does not know, leave its result as it was.                              *)
(***************************************************************************)
C15_IsUpdatedIsOfNativesOnly ==
  /\ [](isUpdated <=> \E name \in DOMAIN Natives : Natives[name].updated)
  /\ [][/\ lastOp'.op = "custom.value" => isUpdated' = isUpdated
        /\ JustValidated' /\ ~IsRMC(sent') /\ ~IsGGA(sent') => isUpdated' = isUpdated
        /\ isUpdated' # isUpdated => \E name \in DOMAIN Natives :
                                       Natives'[name].updated # Natives[name].updated]_vars

\* The second sentence to validate has just committed custom entries again;
\* they are unread, and no native container is updated.
C15_Witness ==
  /\ JustValidated
  /\ passedChecksumCount = 2
  /\ \E p \in DOMAIN custom : custom[p].updated /\ custom[p].sentenceName = NameOf(sent)
  /\ ~isUpdated

(***************************************************************************)
(* What a sentence of any length shows of its fields.                      *)
(***************************************************************************)
\* Data field i of the sentence has been fed to its end.
FieldEnded(s, i) ==
  \/ Len(FieldsOf(s)) > i
  \/ Len(FieldsOf(s)) = i /\ Occurs(s, "*")

\* The entry holds the text of the field in its staging buffer: all of it or,
\* of a long text, its beginning.
StagedFrom(e, text) ==
  /\ Len(e.stagingBuffer) <= Len(text)
  /\ e.stagingBuffer = SubSeq(text, 1, Len(e.stagingBuffer))
  /\ text # <<>> => e.stagingBuffer # <<>>

\* The sentence has a name the parser does not know.
UnknownName(s) == s # <<>> /\ Head(s) = "$" /\ ~IsRMC(s) /\ ~IsGGA(s)

(***************************************************************************)
(* C16.  As stated: while a sentence whose name is none of GPRMC, GNRMC,   *)
(* GPGGA, GNGGA is fed, no native container changes in staged value,       *)
(* committed value or flags and the fix counter stays; the custom entries  *)
(* registered for its name are staged, and on a correct checksum encode()  *)
(* returns true, the passed-checksum counter grows by one and those        *)
(* entries are committed.                                                  *)
(***************************************************************************)
C16_Original ==
  UnknownName(sent) =>
    /\ \A name \in DOMAIN Natives : Natives[name] = before[name]
    /\ sentencesWithFixCount = before.sentencesWithFix
    /\ \A p \in DOMAIN custom :
         (custom[p].sentenceName = NameOf(sent) /\ FieldEnded(sent, custom[p].termNumber)) =>
           /\ StagedFrom(custom[p], FieldsOf(sent)[custom[p].termNumber])
           /\ GoodSentence(sent) =>
                custom[p].valid /\ custom[p].updated /\ custom[p].buffer = custom[p].stagingBuffer
    /\ GoodSentence(sent) =>
         rets[Len(sent) - 1] /\ passedChecksumCount = before.passedChecksum + 1

(***************************************************************************)
(* C17.  As stated: in a sentence of a recognized kind the end of a data   *)
(* field of index 10 or more, whatever its text, changes no staged value   *)
(* of a native container and leaves the fix flag of the sentence as it is. *)
(***************************************************************************)
C17_Original ==
  [][(/\ IsRMC(sent) \/ IsGGA(sent)
      /\ ~Occurs(sent, "*")
      /\ Len(FieldsOf(sent)) >= 10
      /\ \E c \in {",", "*"} : sent' = Append(sent, c))
     => /\ Natives' = Natives
        /\ sentenceHasFix' = sentenceHasFix]_vars

FirstNamed(name) ==
  LET l == RegistryList
      named == {i \in 1..Len(l) : custom[l[i]].sentenceName = name}
  IN IF named = {} THEN NULL ELSE l[CHOOSE i \in named : \A j \in named : i <= j]

\* The name field of the sentence being fed has ended.
NameEnded(s) == s # <<>> /\ Head(s) = "$" /\ (Occurs(s, ",") \/ Occurs(s, "*"))

(***************************************************************************)
(* C19.  As stated: once the name field of a sentence named N has ended,   *)
(* the cached candidate pointer is the first entry of the registry whose   *)
(* name is N, null when there is none; when the checksum passes, the       *)
(* entries whose name is N are committed and the entries of every other    *)
(* name keep their committed text and their valid and updated flags.       *)
(***************************************************************************)
C19_Original ==
  NameEnded(sent) =>
    /\ customCandidates = FirstNamed(NameOf(sent))
    /\ JustValidated =>
         \A p \in DOMAIN custom :
           IF custom[p].sentenceName = NameOf(sent)
           THEN /\ custom[p].valid
                /\ custom[p].updated
                /\ custom[p].buffer = custom[p].stagingBuffer
           ELSE /\ custom[p].buffer = before.custom[p].buffer
                /\ custom[p].valid = before.custom[p].valid
                /\ custom[p].updated = before.custom[p].updated

(***************************************************************************)
(* The field being fed, from the text of the sentence.                     *)
(***************************************************************************)
Delimiters == {",", "*", "\r", "\n"}

\* The characters fed since the last '$' or delimiter.
CurrentField(s) ==
  LET ends == {i \in 1..Len(s) : s[i] = "$" \/ s[i] \in Delimiters}
      last == IF ends = {} THEN 0 ELSE CHOOSE i \in ends : \A j \in ends : j <= i
  IN SubSeq(s, last + 1, Len(s))

\* The first n characters of a text, all of a shorter one.
Beginning(text, n) == IF Len(text) > n THEN SubSeq(text, 1, n) ELSE text

(***************************************************************************)
(* C20.  The write offset of the field buffer is at most 14 in every       *)
(* state.  At every delimiter the terminator is written inside the buffer, *)
(* behind the characters kept, and the end of the field is handled: the    *)
(* buffer then holds the field, of a field of more than 14 characters      *)
(* exactly the first 14, the field index has advanced by one and the write *)
(* offset is 0, where the first character of the next field is written.    *)
(***************************************************************************)
C20_FieldBufferNeverOverrun ==
  /\ [](curTermOffset <= GPS_MAX_FIELD_SIZE - 1)
  /\ [][(lastOp'.op = "encode" /\ sent # <<>> /\ Len(sent') = Len(sent) + 1) =>
          IF Last(sent') \in Delimiters
          THEN /\ curTermOffset + 1 \in DOMAIN term
               /\ term'[curTermOffset + 1] = NUL
               /\ CStr(term') = Beginning(CurrentField(sent), GPS_MAX_FIELD_SIZE - 1)
               /\ curTermNumber' = U8(curTermNumber + 1)
               /\ curTermOffset' = 0
          ELSE /\ curTermOffset = 0 => term'[1] = Last(sent') /\ curTermOffset' = 1
               /\ SubSeq(term', 1, curTermOffset')
                    = Beginning(CurrentField(sent'), GPS_MAX_FIELD_SIZE - 1)]_vars

\* The ',' or '*' behind a field of 15 characters has just been fed.
C20_Witness ==
  /\ lastOp.op = "encode"
  /\ sent # <<>>
  /\ Last(sent) \in {",", "*"}
  /\ Len(CurrentField(SubSeq(sent, 1, Len(sent) - 1))) = GPS_MAX_FIELD_SIZE
  /\ CStr(term) = Long(GPS_MAX_FIELD_SIZE - 1)
  /\ curTermNumber = 2
  /\ curTermOffset = 0

(***************************************************************************)
(* The checksum field as the claims read it.                               *)
(***************************************************************************)
\* The text begins with two hex digits whose value is acc.
HexChecksum(text, acc) ==
  /\ Len(text) >= 2
  /\ IsHexDigit(text[1])
  /\ IsHexDigit(text[2])
  /\ 16 * HexValue(text[1]) + HexValue(text[2]) = acc

\* This step feeds the delimiter that ends a checksum field.
EndsChecksumField ==
  /\ lastOp'.op = "encode"
  /\ isChecksumTerm
  /\ Len(sent') = Len(sent) + 1
  /\ Last(sent') \in Delimiters

(***************************************************************************)
(* C21.  As stated: a checksum field validates exactly when its text       *)
(* begins with two hex digits (0-9, A-F, a-f) whose value 16*h1 + h2 is    *)
(* the accumulator; an empty field, a field of one character and a field   *)
(* with another character in one of its first two places never validate.  *)
(***************************************************************************)
C21_Original ==
  [][EndsChecksumField => (ret' <=> HexChecksum(CurrentField(sent), parity'))]_vars

(***************************************************************************)
(* C22.  As stated: a checksum pass adds one to the passed-checksum        *)
(* counter, and one to the fix counter exactly when the sentence says it   *)
(* has a fix: field 2 of a position/velocity sentence begins with 'A',     *)
(* field 6 of a fix-data sentence with a character above '0'.  With that   *)
(* field empty or absent, and for a sentence of any other name, the fix    *)
(* counter stays.                                                          *)
(***************************************************************************)
C22_Original ==
  JustValidated =>
    /\ passedChecksumCount = before.passedChecksum + 1
    /\ sentencesWithFixCount = before.sentencesWithFix + (IF SaysFix(sent) THEN 1 ELSE 0)

\* The container has just been committed: it is valid and updated and bears
\* the time of now.
JustCommitted(c) == c.valid /\ c.updated /\ c.lastCommitTime = millis

(***************************************************************************)
(* C23.  As stated: a validated position/velocity sentence without a fix   *)
(* commits date and time and leaves location, speed and course as they     *)
(* were in committed value, valid, updated and time of commit; a validated *)
(* fix-data sentence without a fix commits time, satellites and hdop and   *)
(* leaves location and altitude as they were.  So no sentence that reports *)
(* no fix commits the location.                                            *)
(***************************************************************************)
C23_Original ==
  (JustValidated /\ ~SaysFix(sent)) =>
    /\ IsRMC(sent) =>
         /\ JustCommitted(date) /\ date.date = date.newDate
         /\ JustCommitted(time) /\ time.time = time.newTime
         /\ PublishedLocation(location) = PublishedLocation(before.location)
         /\ PublishedNumber(speed) = PublishedNumber(before.speed)
         /\ PublishedNumber(course) = PublishedNumber(before.course)
    /\ IsGGA(sent) =>
         /\ JustCommitted(time) /\ time.time = time.newTime
         /\ JustCommitted(satellites) /\ satellites.val = satellites.newval
         /\ JustCommitted(hdop) /\ hdop.val = hdop.newval
         /\ PublishedLocation(location) = PublishedLocation(before.location)
         /\ PublishedNumber(altitude) = PublishedNumber(before.altitude)
    /\ PublishedLocation(location) = PublishedLocation(before.location)

(***************************************************************************)
(* C24.  What the parser answers to a sentence does not depend on what was *)
(* fed before it: whenever the caller watched the same sentence twice,     *)
(* after different prior inputs or once on the parser just constructed,    *)
(* encode() returned the same values on its characters and the passed,     *)
(* failed and fix counters moved by the same amounts.                      *)
(***************************************************************************)
C24_Original ==
  \A a \in noted : \A b \in noted : a.text = b.text => a = b

(***************************************************************************)
(* C25.  A sentence validates at most once: among the values encode() has  *)
(* returned since the last '$' at most one is true, and the passed         *)
(* counter is at most one above what it was at that '$'.                   *)
(***************************************************************************)
C25_Original ==
  /\ Cardinality({i \in DOMAIN rets : rets[i]}) <= 1
  /\ passedChecksumCount <= before.passedChecksum + 1

(***************************************************************************)
(* C26.  The counters, below the 32-bit wrap: after every step             *)
(* charsProcessed is the number of encode() calls made and passedChecksum  *)
(* the number of those that returned true, sentencesWithFix is at most     *)
(* passedChecksum; a step moves passedChecksum + failedChecksum by 0 or 1, *)
(* by 1 exactly when it is an encode() call that ends a checksum field;    *)
(* and no counter decreases.                                               *)
(***************************************************************************)
C26_CounterInvariants ==
  [][LET moved == (passedChecksumCount' + failedChecksumCount')
                    - (passedChecksumCount + failedChecksumCount)
     IN /\ encodedCharCount' = tally'.calls
        /\ passedChecksumCount' = tally'.trues
        /\ sentencesWithFixCount' <= passedChecksumCount'
        /\ moved \in {0, 1}
        /\ moved = 1 <=> EndsChecksumField
        /\ encodedCharCount' >= encodedCharCount
        /\ passedChecksumCount' >= passedChecksumCount
        /\ failedChecksumCount' >= failedChecksumCount
        /\ sentencesWithFixCount' >= sentencesWithFixCount]_vars

\* Two sentences went through, one with a fix that passed and one that failed.
C26_Witness ==
  /\ lastOp.op = "encode"
  /\ tally.calls = encodedCharCount
  /\ tally.trues = 1
  /\ passedChecksumCount = 1
  /\ failedChecksumCount = 1
  /\ sentencesWithFixCount = 1

(***************************************************************************)
(* The caller that registers custom fields and calls begin() again on      *)
(* objects it registered before, under any key.  On a list that does not   *)
(* end in NULL the loop of insertCustom need not end: the caller is        *)
(* followed up to there.                                                   *)
(***************************************************************************)
NullTerminated == Len(RegistryList) <= Cardinality(DOMAIN custom)

RegisterNew == NullTerminated /\ RegisterAny

RegisterAgain ==
  /\ NullTerminated
  /\ \E pElt \in DOMAIN custom, sentenceName \in RegistryNames, termNumber \in RegistryNumbers :
       RegisterOn(pElt, sentenceName, termNumber)

NextAgain == RegisterNew \/ RegisterAgain
SpecAgain == Init /\ [][NextAgain]_vars

\* The scan of endOfTermHandler for the first entry of a name, begun at p,
\* ends after visiting at most n entries.
RECURSIVE ScanEndsWithin(_, _, _)
ScanEndsWithin(p, name, n) ==
  IF p # NULL /\ strcmp(custom[p].sentenceName, name) < 0
  THEN n > 0 /\ ScanEndsWithin(custom[p].next, name, n - 1)
  ELSE TRUE

\* The commit scan over the entries of the name of `first`, at p, ends after
\* visiting at most n entries.
RECURSIVE CommitEndsWithin(_, _, _)
CommitEndsWithin(p, first, n) ==
  IF p # NULL /\ strcmp(custom[p].sentenceName, custom[first].sentenceName) = 0
  THEN n > 0 /\ CommitEndsWithin(custom[p].next, first, n - 1)
  ELSE TRUE

\* The staging scan for the field of number termNumber likewise.
RECURSIVE StageEndsWithin(_, _, _, _)
StageEndsWithin(p, first, termNumber, n) ==
  IF /\ p # NULL
     /\ strcmp(custom[p].sentenceName, custom[first].sentenceName) = 0
     /\ custom[p].termNumber <= termNumber
  THEN n > 0 /\ StageEndsWithin(custom[p].next, first, termNumber, n - 1)
  ELSE TRUE

(***************************************************************************)
(* C27.  After any sequence of begin() calls the registry is a finite list *)
(* without a cycle that ends in NULL, no longer than the number of objects *)
(* registered, and the scans of encode() end after visiting at most that   *)
(* many entries: the scan for the first entry of a sentence name, the      *)
(* staging scan of a field and the commit scan.                            *)
(***************************************************************************)
C27_Original ==
  LET n == Cardinality(DOMAIN custom)
  IN /\ NullTerminated
     /\ \A i \in 1..Len(RegistryList) : \A j \in 1..Len(RegistryList) :
          RegistryList[i] = RegistryList[j] => i = j
     /\ \A name \in RegistryNames \cup {GPGGAterm} : ScanEndsWithin(customElts, name, n)
     /\ \A first \in DOMAIN custom :
          /\ CommitEndsWithin(first, first, n)
          /\ StageEndsWithin(first, first, 2, n)
====
